---- MODULE Spec2Model ----
(***************************************************************************)
(* A model of GmailManager.py: the Email class.  Spec models the network   *)
(* operations (send_email and the five get_emails_by_* searches) as the    *)
(* statement-by-statement run of one call at a time; SpecMsg models the    *)
(* pure helpers over a parsed message tree (get_email_body,                *)
(* get_attachments, get_email_headers).                                    *)
(*                                                                         *)
(* A Python str is a sequence of one-character strings.  A Message is a    *)
(* record  [hdrs, multipart, text, parts]:  hdrs is the ordered list of    *)
(* headers, each [name, value, param] (param is the filename/name          *)
(* parameter of the header, NoParam when it has none); multipart says      *)
(* whether the payload is a list (is_multipart()); text is the payload of  *)
(* a leaf, parts the payload of a container.                               *)
(***************************************************************************)
EXTENDS Integers, Sequences, FiniteSets, TLC

\* ------------------------------------------------------------- bounds
MaxRecipients == 2
MaxMailbox == 2
MaxQueryLen == 1

\* ------------------------------------------------------------- strings
Alphabet == {"a", "b"}

StrsUpTo(n) == UNION {[1..k -> Alphabet] : k \in 0..n}

\* Python's  sub in s  for two str: s has a slice equal to sub.
Contains(sub, s) ==
  \E k \in 0..(Len(s) - Len(sub)) : SubSeq(s, k + 1, k + Len(sub)) = sub

RECURSIVE JoinCommaOnly(_)
\* A join with "," where the code joins with ", ".
JoinCommaOnly(list) ==
  IF list = <<>> THEN <<>>
  ELSE IF Len(list) = 1 THEN list[1]
  ELSE list[1] \o <<",">> \o JoinCommaOnly(Tail(list))

RECURSIVE Join(_)
\* ", ".join(recipient_emails)
Join(list) ==
  IF list = <<>> THEN <<>>
  ELSE IF Len(list) = 1 THEN list[1]
  ELSE list[1] \o <<",", " ">> \o Join(Tail(list))

\* ------------------------------------------------------------- messages
\* A header's filename / name parameter: absent, or present with a value.
NoParam == [present |-> FALSE, val |-> <<>>]

Param(x) == [present |-> TRUE, val |-> x]

Hdr(n, v, p) == [name |-> n, value |-> v, param |-> p]

Leaf(h, t) == [hdrs |-> h, multipart |-> FALSE, text |-> t, parts |-> <<>>]

Container(h, ps) == [hdrs |-> h, multipart |-> TRUE, text |-> <<>>, parts |-> ps]

\* Header names compare case-insensitively in email.message.Message.
Lower(n) ==
  CASE n = "Date" -> "date"
    [] n = "DATE" -> "date"
    [] n = "Subject" -> "subject"
    [] n = "From" -> "from"
    [] n = "To" -> "to"
    [] n = "Received" -> "received"
    [] n = "Content-Type" -> "content-type"
    [] n = "Content-Disposition" -> "content-disposition"
    [] n = "Content-Transfer-Encoding" -> "content-transfer-encoding"
    [] OTHER -> n

HasHeader(m, n) == \E k \in 1..Len(m.hdrs) : Lower(m.hdrs[k].name) = Lower(n)

FirstIndex(m, n) ==
  CHOOSE k \in 1..Len(m.hdrs) :
    /\ Lower(m.hdrs[k].name) = Lower(n)
    /\ \A j \in 1..(k - 1) : Lower(m.hdrs[j].name) # Lower(n)

\* email[name] / email.get(name): the first header of that name; the caller
\* tests HasHeader first, the None case.
Get(m, n) == m.hdrs[FirstIndex(m, n)]

\* get_content_maintype(): the first token of Content-Type, "text" when the
\* header is missing (the default type is text/plain).
get_content_maintype(m) ==
  IF HasHeader(m, "Content-Type") THEN Get(m, "Content-Type").value[1] ELSE "text"

\* ------------------------------------------------------------- the mailbox
\* A raw message on the server: its header lines, whether its body is a
\* multipart body, and the text its body carries.
DateChoices == { <<>>, <<Hdr("Date", <<"a">>, NoParam)>> }

RawMessage(d, mp, t) ==
  [hdrs |-> <<Hdr("Subject", t \o <<"b">>, NoParam),
              Hdr("From", IF mp THEN <<"a">> ELSE <<"b">>, NoParam),
              Hdr("To", IF d = <<>> THEN <<"a", "b">> ELSE <<"b">>, NoParam)>> \o d,
   multipart |-> mp,
   body |-> t]

MessagePool ==
  { RawMessage(d, mp, t) : d \in DateChoices, mp \in BOOLEAN, t \in {<<"a">>, <<"b">>} }

Mailboxes == UNION {[1..k -> MessagePool] : k \in 0..MaxMailbox}

\* email.message_from_bytes(raw_email): a multipart body becomes a list of
\* sub-parts, any other body stays a str.
message_from_bytes(raw) ==
  IF raw.multipart
  THEN Container(<<Hdr("Content-Type", <<"multipart", "/", "mixed">>, NoParam)>> \o raw.hdrs,
                 <<Leaf(<<>>, raw.body)>>)
  ELSE Leaf(raw.hdrs, raw.body)

\* ------------------------------------------------------------- helpers
MaxNodes == 4

RECURSIVE NodeCount(_)
NodeCount(t) ==
  LET RECURSIVE Sum(_)
      Sum(ps) == IF ps = <<>> THEN 0 ELSE NodeCount(Head(ps)) + Sum(Tail(ps))
  IN  1 + Sum(t.parts)

\* A path names a part: the child indexes from the root down.
RECURSIVE ValidPath(_, _)
ValidPath(t, p) ==
  IF p = <<>> THEN TRUE
  ELSE /\ Head(p) \in 1..Len(t.parts)
       /\ ValidPath(t.parts[Head(p)], Tail(p))

RECURSIVE At(_, _)
At(t, p) == IF p = <<>> THEN t ELSE At(t.parts[Head(p)], Tail(p))

RECURSIVE AttachAt(_, _, _)
\* Message.attach(part) on the container at path p.
AttachAt(t, p, part) ==
  IF p = <<>> THEN [t EXCEPT !.parts = Append(@, part)]
  ELSE [t EXCEPT !.parts[Head(p)] = AttachAt(@, Tail(p), part)]

\* The parts a parsed message is made of.
LeafPool ==
  { Leaf(<<Hdr("Content-Type", <<"text", "/", "plain">>, NoParam)>>, <<"a">>),
    Leaf(<<Hdr("Content-Disposition", <<"inline">>, NoParam)>>, <<"b">>),
    Leaf(<<Hdr("Content-Type", <<"application", "/", "pdf">>, NoParam),
           Hdr("Content-Transfer-Encoding", <<"base64">>, NoParam),
           Hdr("Content-Disposition", <<"attachment">>, Param(<<"f">>))>>, <<"Yg", "YQ">>),
    Leaf(<<Hdr("Content-Type", <<"text", "/", "plain">>, Param(<<"n">>)),
           Hdr("Content-Disposition", <<"attachment">>, Param(<<>>))>>, <<"a">>),
    Leaf(<<Hdr("Content-Type", <<"image", "/", "png">>, Param(<<"n">>))>>, <<"b">>),
    Leaf(<<Hdr("Content-Type", <<"image", "/", "png">>, Param(<<"n">>)),
           Hdr("Content-Disposition", <<"attachment">>, NoParam)>>, <<"b">>),
    Leaf(<<Hdr("Content-Type", <<"multipart", "/", "mixed">>, NoParam),
           Hdr("Content-Disposition", <<"attachment">>, Param(<<"f">>))>>, <<"a">>),
    Leaf(<<Hdr("Received", <<"a">>, NoParam),
           Hdr("Received", <<"b">>, NoParam),
           Hdr("Subject", <<"a">>, NoParam)>>, <<"a">>) }

ContainerPool ==
  { Container(<<Hdr("Content-Type", <<"multipart", "/", "mixed">>, NoParam)>>, <<>>),
    Container(<<Hdr("Content-Type", <<"message", "/", "rfc822">>, NoParam),
                Hdr("Content-Disposition", <<"attachment">>, Param(<<"m">>))>>, <<>>) }

PartPool == LeafPool \cup ContainerPool

\* Base64 of one character, without the padding.
B64Char(c) == CASE c = "a" -> "YQ" [] c = "b" -> "Yg" [] OTHER -> "?"

B64Encode(s) == [k \in 1..Len(s) |-> B64Char(s[k])]

\* Decoding drops what is not base64.
B64Decode(s) ==
  LET known(x) == x \in {"YQ", "Yg"}
      one(x) == IF x = "YQ" THEN "a" ELSE "b"
      kept == SelectSeq(s, known)
  IN  [k \in 1..Len(kept) |-> one(kept[k])]

\* email.get_payload(None, True) of a leaf: the payload decoded as the
\* Content-Transfer-Encoding header says.
DecodedPayload(m) ==
  IF HasHeader(m, "Content-Transfer-Encoding")
     /\ Get(m, "Content-Transfer-Encoding").value = <<"base64">>
  THEN B64Decode(m.text)
  ELSE m.text

RECURSIVE get_email_body_last(_)
\* A body extraction that descends into the last sub-part.
get_email_body_last(m) ==
  IF m.multipart
  THEN IF m.parts = <<>> THEN [raised |-> "IndexError", body |-> <<>>]
       ELSE get_email_body_last(m.parts[Len(m.parts)])
  ELSE [raised |-> "", body |-> DecodedPayload(m)]

RECURSIVE get_email_body(_)
\* Lines 217-220.  get_payload(0) of an empty list raises IndexError.
get_email_body(m) ==
  IF m.multipart
  THEN IF m.parts = <<>> THEN [raised |-> "IndexError", body |-> <<>>]
       ELSE get_email_body(m.parts[1])
  ELSE [raised |-> "", body |-> DecodedPayload(m)]

RECURSIVE walk(_, _)
\* Message.walk(): the part itself, then the walk of each sub-part in turn.
\* The parts are given by their paths.
walk(t, p) ==
  LET RECURSIVE Subparts(_)
      Subparts(k) ==
        IF k > Len(t.parts) THEN <<>>
        ELSE walk(t.parts[k], Append(p, k)) \o Subparts(k + 1)
  IN  <<p>> \o (IF t.multipart THEN Subparts(1) ELSE <<>>)

\* part.get_filename(): the filename parameter of Content-Disposition, or,
\* when that parameter is missing, the name parameter of Content-Type.
get_filename(m) ==
  IF HasHeader(m, "Content-Disposition") /\ Get(m, "Content-Disposition").param.present
  THEN Get(m, "Content-Disposition").param
  ELSE IF HasHeader(m, "Content-Type") THEN Get(m, "Content-Type").param
  ELSE NoParam

PathsOf(t) == {walk(t, <<>>)[k] : k \in 1..Len(walk(t, <<>>))}

\* The loop body without the test of the filename.
IsAttachmentAnyName(part) ==
  /\ get_content_maintype(part) # "multipart"
  /\ HasHeader(part, "Content-Disposition")

\* Lines 198-203: the part passes the three tests of the loop body.
IsAttachment(part) ==
  /\ get_content_maintype(part) # "multipart"
  /\ HasHeader(part, "Content-Disposition")
  /\ get_filename(part).present /\ get_filename(part).val # <<>>

\* Lines 196-205, as the paths of the parts appended.
get_attachments(m) ==
  LET keep(p) == IsAttachment(At(m, p))
  IN  SelectSeq(walk(m, <<>>), keep)

\* dict(email.items()): one entry per header name as spelled, a later
\* occurrence replacing an earlier one.
get_email_headers(m) ==
  LET names == {m.hdrs[k].name : k \in 1..Len(m.hdrs)}
      last(n) == CHOOSE k \in 1..Len(m.hdrs) :
                   /\ m.hdrs[k].name = n
                   /\ \A j \in (k + 1)..Len(m.hdrs) : m.hdrs[j].name # n
  IN  [n \in names |-> m.hdrs[last(n)].value]

\* What a helper returned (or raised).
NoOut == [raised |-> "", body |-> <<>>, paths |-> <<>>, parts |-> <<>>,
          dict |-> [n \in {} |-> <<>>]]

\* ------------------------------------------------------------- state
VARIABLES
  pc,                \* the position of the running call ("idle" between calls)
  op,                \* the public operation running
  recipient_emails,  \* send_email's argument
  attachment,        \* send_email's argument: "none", "readable" or "missing"
  query,             \* the search's argument
  message,           \* send_email's MIMEMultipart message
  server,            \* the session of the with statement
  net,               \* how often the call opened a session, logged in, ...
  sent,              \* what was handed to server.sendmail
  email_ids,         \* the identifiers the server search returned
  emails,            \* the list the search collects
  result,            \* what the call gave its caller
  mailbox,           \* the inbox on the server
  helper,            \* the helper that ran last
  email,             \* the helper's argument
  out                \* the helper's return value

netvars == <<pc, op, recipient_emails, attachment, query, message, server, net,
             sent, email_ids, emails, result, mailbox>>

msgvars == <<helper, email, out>>

vars == <<netvars, msgvars>>

\* __init__ (the sender's address) and the arguments of line 333.
sender_email == <<"s">>

Recipients == UNION {[1..k -> {<<"x">>, <<"y", "z">>}] : k \in 0..MaxRecipients}

Queries == StrsUpTo(MaxQueryLen)

SearchOps == {"subject", "body", "date", "recipient", "sender"}

NoMessage == Leaf(<<>>, <<>>)

NoSession == [kind |-> "none", state |-> "none", encrypted |-> FALSE, authenticated |-> FALSE]

NoNet == [opens |-> 0, logins |-> 0, selects |-> 0, searches |-> 0, fetches |-> 0, submits |-> 0]

NoSent == [called |-> FALSE, from_addr |-> <<>>, to_addrs |-> <<>>,
           msg |-> [hdrs |-> <<>>, body |-> <<>>]]

NoResult == [status |-> "none", value |-> "", exc |-> "", list |-> <<>>]

Returned(v, l) == [status |-> "returned", value |-> v, exc |-> "", list |-> l]

Raised(e) == [status |-> "raised", value |-> "", exc |-> e, list |-> <<>>]

\* The with statement's __exit__: the session is closed however the block ends.
ExitSession(s) == [s EXCEPT !.state = "closed"]

\* smtplib.SMTP(self.smtp_server): a plain SMTP connection; the code never
\* calls starttls().
SmtpSession == [kind |-> "smtp", state |-> "open", encrypted |-> FALSE, authenticated |-> FALSE]

\* imaplib.IMAP4_SSL(self.smtp_server)
ImapSession == [kind |-> "imap", state |-> "open", encrypted |-> TRUE, authenticated |-> FALSE]

\* ------------------------------------------------------------- send_email
RECURSIVE Flatten(_)
\* The bodies of a message's parts, one after the other.
Flatten(ps) == IF ps = <<>> THEN <<>> ELSE Head(ps).text \o Flatten(Tail(ps))

\* message.as_string(): the header lines and the flattened body.
as_string(m) == [hdrs |-> m.hdrs, body |-> IF m.multipart THEN Flatten(m.parts) ELSE m.text]

\* Lines 40-45: MIMEMultipart() with From, To, Subject and the text part.
BuildMessage(r) ==
  Container(<<Hdr("Content-Type", <<"multipart", "/", "mixed">>, NoParam),
              Hdr("From", sender_email, NoParam),
              Hdr("To", Join(r), NoParam),
              Hdr("Subject", <<"T">>, NoParam)>>,
            <<Leaf(<<Hdr("Content-Type", <<"text", "/", "plain">>, NoParam)>>, <<"t">>)>>)

\* Lines 49-55: the MIMEBase part of the attachment file.
AttachmentPart ==
  Leaf(<<Hdr("Content-Type", <<"application", "/", "octet-stream">>, NoParam),
         Hdr("Content-Transfer-Encoding", <<"base64">>, NoParam),
         Hdr("Content-Disposition", <<"attachment">>, Param(<<"f">>))>>, <<"YQ">>)

\* The except clause of line 63-64.
SendError == Returned("Failed to send email. Error: ", <<>>)

\* A statement of the try block raised: __exit__ closes the session and the
\* except clause turns the exception into the error string.
SendFail ==
  /\ server' = ExitSession(server)
  /\ result' = SendError
  /\ pc' = "done"

\* smtplib's sendmail raises SMTPRecipientsRefused when every recipient was
\* refused, which is also the case when there is none (0 refused of 0).
AllRefused(to_addrs, refused) == refused = Len(to_addrs)

SendCall(r, a) ==
  /\ pc = "idle"
  /\ pc' = "attach"
  /\ op' = "send"
  /\ recipient_emails' = r
  /\ attachment' = a
  /\ message' = BuildMessage(r)
  /\ UNCHANGED <<query, server, net, sent, email_ids, emails, result, mailbox>>

Attach ==
  /\ pc = "attach"
  /\ CASE attachment = "none" ->
            /\ pc' = "smtp_open"
            /\ UNCHANGED <<message, result>>
       [] attachment = "readable" ->
            /\ message' = [message EXCEPT !.parts = Append(@, AttachmentPart)]
            /\ pc' = "smtp_open"
            /\ UNCHANGED result
       [] attachment = "missing" ->
            \* open() raises outside the try block of line 58
            /\ result' = Raised("FileNotFoundError")
            /\ pc' = "done"
            /\ UNCHANGED message
  /\ UNCHANGED <<op, recipient_emails, attachment, query, server, net, sent,
                 email_ids, emails, mailbox>>

SmtpOpen ==
  /\ pc = "smtp_open"
  /\ net' = [net EXCEPT !.opens = @ + 1]
  /\ \E ok \in BOOLEAN :
       IF ok
       THEN /\ server' = SmtpSession
            /\ pc' = "smtp_login"
            /\ UNCHANGED result
       ELSE \* the constructor raised: no session was entered
            /\ result' = SendError
            /\ pc' = "done"
            /\ UNCHANGED server
  /\ UNCHANGED <<op, recipient_emails, attachment, query, message, sent,
                 email_ids, emails, mailbox>>

SmtpLogin ==
  /\ pc = "smtp_login"
  /\ net' = [net EXCEPT !.logins = @ + 1]
  /\ \E ok \in BOOLEAN :
       IF ok
       THEN /\ server' = [server EXCEPT !.authenticated = TRUE]
            /\ pc' = "sendmail"
            /\ UNCHANGED result
       ELSE SendFail
  /\ UNCHANGED <<op, recipient_emails, attachment, query, message, sent,
                 email_ids, emails, mailbox>>

SmtpSendmail ==
  /\ pc = "sendmail"
  /\ net' = [net EXCEPT !.submits = @ + 1]
  /\ sent' = [called |-> TRUE, from_addr |-> sender_email,
              to_addrs |-> recipient_emails, msg |-> as_string(message)]
  /\ \E refused \in 0..Len(recipient_emails), ok \in BOOLEAN :
       IF ok /\ ~AllRefused(recipient_emails, refused)
       THEN /\ pc' = "smtp_exit"
            /\ UNCHANGED <<server, result>>
       ELSE SendFail
  /\ UNCHANGED <<op, recipient_emails, attachment, query, message,
                 email_ids, emails, mailbox>>

\* The normal end of the with block: QUIT, close, and line 62 unless QUIT's
\* reply makes __exit__ raise, which the except clause catches.
SmtpExit ==
  /\ pc = "smtp_exit"
  /\ server' = ExitSession(server)
  /\ \E ok \in BOOLEAN :
       result' = IF ok THEN Returned("Email sent successfully.", <<>>) ELSE SendError
  /\ pc' = "done"
  /\ UNCHANGED <<op, recipient_emails, attachment, query, message, net, sent,
                 email_ids, emails, mailbox>>

\* ------------------------------------------------------------- the searches
Ids(n) == [k \in 1..n |-> k]

Field(raw, n) == Get([hdrs |-> raw.hdrs], n).value

\* What the server answers to search(None, ...): the identifiers, in mailbox
\* order, of the messages the IMAP search key selects.
ServerSearch(o, q, box) ==
  LET hit(k) ==
        CASE o = "subject" -> Contains(q, Field(box[k], "Subject"))
          [] o = "recipient" -> Contains(q, Field(box[k], "To"))
          [] o = "sender" -> Contains(q, Field(box[k], "From"))
          [] OTHER -> TRUE
  IN  SelectSeq(Ids(Len(box)), hit)

\* The test of line 111 / 136 ("raises" when  date in None  is evaluated).
FilterRaises(o, m) == o = "date" /\ ~HasHeader(m, "Date")

\* Line 111: a str is never an element of the list get_payload() returns for
\* a multipart message.  Line 136: substring of the Date header.
Keeps(o, q, m) ==
  CASE o = "body" -> IF m.multipart THEN FALSE ELSE Contains(q, m.text)
    [] o = "date" -> Contains(q, Get(m, "Date").value)
    [] OTHER -> TRUE

\* A search without the with statement: a raising statement leaves the
\* session open.
SearchFailLeak(e) ==
  /\ server' = server
  /\ result' = Raised(e)
  /\ pc' = "done"

\* A search that catches the exception and returns what it has collected.
SearchFailPartial(e) ==
  /\ server' = ExitSession(server)
  /\ result' = Returned("", emails)
  /\ pc' = "done"

\* A statement of the with block raised: __exit__ closes the session and the
\* exception reaches the caller; the list collected so far is dropped.
SearchFail(e) ==
  /\ server' = ExitSession(server)
  /\ result' = Raised(e)
  /\ pc' = "done"

SearchCall(o, q) ==
  /\ pc = "idle"
  /\ pc' = "imap_open"
  /\ op' = o
  /\ query' = q
  /\ emails' = <<>>
  /\ UNCHANGED <<recipient_emails, attachment, message, server, net, sent,
                 email_ids, result, mailbox>>

ImapOpen ==
  /\ pc = "imap_open"
  /\ net' = [net EXCEPT !.opens = @ + 1]
  /\ \E ok \in BOOLEAN :
       IF ok
       THEN /\ server' = ImapSession
            /\ pc' = "imap_login"
            /\ UNCHANGED result
       ELSE /\ result' = Raised("OSError")
            /\ pc' = "done"
            /\ UNCHANGED server
  /\ UNCHANGED <<op, recipient_emails, attachment, query, message, sent,
                 email_ids, emails, mailbox>>

ImapLogin ==
  /\ pc = "imap_login"
  /\ net' = [net EXCEPT !.logins = @ + 1]
  /\ \E ok \in BOOLEAN :
       IF ok
       THEN /\ server' = [server EXCEPT !.authenticated = TRUE]
            /\ pc' = "select"
            /\ UNCHANGED result
       ELSE SearchFail("IMAP4.error")
  /\ UNCHANGED <<op, recipient_emails, attachment, query, message, sent,
                 email_ids, emails, mailbox>>

ImapSelect ==
  /\ pc = "select"
  /\ net' = [net EXCEPT !.selects = @ + 1]
  /\ \E ok \in BOOLEAN :
       IF ok
       THEN /\ pc' = "search"
            /\ UNCHANGED <<server, result>>
       ELSE SearchFail("IMAP4.error")
  /\ UNCHANGED <<op, recipient_emails, attachment, query, message, sent,
                 email_ids, emails, mailbox>>

ImapSearch ==
  /\ pc = "search"
  /\ net' = [net EXCEPT !.searches = @ + 1]
  /\ \E ok \in BOOLEAN :
       IF ok
       THEN /\ email_ids' = ServerSearch(op, query, mailbox)
            /\ pc' = "fetch"
            /\ UNCHANGED <<server, result>>
       ELSE /\ SearchFail("IMAP4.error")
            /\ UNCHANGED email_ids
  /\ UNCHANGED <<op, recipient_emails, attachment, query, message, sent,
                 emails, mailbox>>

\* One turn of the for loop: fetch, parse, filter, append.
ImapFetch ==
  /\ pc = "fetch"
  /\ net.fetches < Len(email_ids)
  /\ net' = [net EXCEPT !.fetches = @ + 1]
  /\ \E ok \in BOOLEAN :
       LET email_id == email_ids[net.fetches + 1]
           email_message == message_from_bytes(mailbox[email_id])
       IN  IF ~ok THEN /\ SearchFail("IMAP4.error")
                       /\ UNCHANGED emails
           ELSE IF FilterRaises(op, email_message)
                THEN /\ SearchFail("TypeError")
                     /\ UNCHANGED emails
           ELSE /\ emails' = IF Keeps(op, query, email_message)
                             THEN Append(emails, email_message) ELSE emails
                /\ UNCHANGED <<pc, server, result>>
  /\ UNCHANGED <<op, recipient_emails, attachment, query, message, sent,
                 email_ids, mailbox>>

\* The loop is over: __exit__ logs out and closes, line 88 returns the list
\* unless the logout raised.
ImapExit ==
  /\ pc = "fetch"
  /\ net.fetches = Len(email_ids)
  /\ server' = ExitSession(server)
  /\ \E ok \in BOOLEAN :
       result' = IF ok THEN Returned("", emails) ELSE Raised("IMAP4.abort")
  /\ pc' = "done"
  /\ UNCHANGED <<op, recipient_emails, attachment, query, message, net, sent,
                 email_ids, emails, mailbox>>

\* The caller has the result; the client is ready for the next call.
Return ==
  /\ pc = "done"
  /\ pc' = "idle"
  /\ op' = "none"
  /\ recipient_emails' = <<>>
  /\ attachment' = "none"
  /\ query' = <<>>
  /\ message' = NoMessage
  /\ server' = NoSession
  /\ net' = NoNet
  /\ sent' = NoSent
  /\ email_ids' = <<>>
  /\ emails' = <<>>
  /\ result' = NoResult
  /\ UNCHANGED mailbox

Init ==
  /\ pc = "idle"
  /\ op = "none"
  /\ recipient_emails = <<>>
  /\ attachment = "none"
  /\ query = <<>>
  /\ message = NoMessage
  /\ server = NoSession
  /\ net = NoNet
  /\ sent = NoSent
  /\ email_ids = <<>>
  /\ emails = <<>>
  /\ result = NoResult
  /\ mailbox \in Mailboxes
  /\ helper = "none"
  /\ email = NoMessage
  /\ out = NoOut

Next ==
  \/ \E r \in Recipients, a \in {"none", "readable", "missing"} : SendCall(r, a) /\ UNCHANGED msgvars
  \/ Attach /\ UNCHANGED msgvars
  \/ SmtpOpen /\ UNCHANGED msgvars
  \/ SmtpLogin /\ UNCHANGED msgvars
  \/ SmtpSendmail /\ UNCHANGED msgvars
  \/ SmtpExit /\ UNCHANGED msgvars
  \/ \E o \in SearchOps, q \in Queries : SearchCall(o, q) /\ UNCHANGED msgvars
  \/ ImapOpen /\ UNCHANGED msgvars
  \/ ImapLogin /\ UNCHANGED msgvars
  \/ ImapSelect /\ UNCHANGED msgvars
  \/ ImapSearch /\ UNCHANGED msgvars
  \/ ImapFetch /\ UNCHANGED msgvars
  \/ ImapExit /\ UNCHANGED msgvars
  \/ Return /\ UNCHANGED msgvars

Spec == Init /\ [][Next]_vars

\* ------------------------------------------------------------- SpecMsg
\* A message arrives at a helper as parsed: a part, grown by further parts.
AttachPart(p, part) ==
  /\ NodeCount(email) < MaxNodes
  /\ ValidPath(email, p)
  /\ At(email, p).multipart
  /\ email' = AttachAt(email, p, part)
  /\ helper' = "none"
  /\ out' = NoOut

GetEmailBody ==
  /\ helper = "none"
  /\ helper' = "get_email_body"
  /\ LET r == get_email_body(email)
     IN  out' = [NoOut EXCEPT !.raised = r.raised, !.body = r.body]
  /\ UNCHANGED email

GetAttachments ==
  /\ helper = "none"
  /\ helper' = "get_attachments"
  /\ LET ps == get_attachments(email)
     IN  out' = [NoOut EXCEPT !.paths = ps,
                              !.parts = [k \in 1..Len(ps) |-> At(email, ps[k])]]
  /\ UNCHANGED email

GetEmailHeaders ==
  /\ helper = "none"
  /\ helper' = "get_email_headers"
  /\ out' = [NoOut EXCEPT !.dict = get_email_headers(email)]
  /\ UNCHANGED email

InitMsg ==
  /\ pc = "idle"
  /\ op = "none"
  /\ recipient_emails = <<>>
  /\ attachment = "none"
  /\ query = <<>>
  /\ message = NoMessage
  /\ server = NoSession
  /\ net = NoNet
  /\ sent = NoSent
  /\ email_ids = <<>>
  /\ emails = <<>>
  /\ result = NoResult
  /\ mailbox = <<>>
  /\ helper = "none"
  /\ email \in PartPool
  /\ out = NoOut

NextMsg ==
  \/ \E p \in PathsOf(email), part \in PartPool : AttachPart(p, part) /\ UNCHANGED netvars
  \/ GetEmailBody /\ UNCHANGED netvars
  \/ GetAttachments /\ UNCHANGED netvars
  \/ GetEmailHeaders /\ UNCHANGED netvars

SpecMsg == InitMsg /\ [][NextMsg]_vars

\* ------------------------------------------------------------- claims: Spec
SuccessText == "Email sent successfully."

\* C1: every call of send_email returns a result (the success text or the
\* error text with a description) and never raises to its caller.
C1_SendNeverRaises ==
  (op = "send" /\ pc = "done") =>
    /\ result.status = "returned"
    /\ result.value \in {SuccessText, SendError.value}

\* C2: whenever send_email has reached the submit step, the session it
\* submits in is encrypted and authenticated.
C2_SubmitEncryptedAuthenticated ==
  (op = "send" /\ net.submits > 0) => (server.encrypted /\ server.authenticated)

\* No step of the call was tried twice.
NoRetry ==
  /\ net.logins <= 1
  /\ net.selects <= 1
  /\ net.searches <= 1
  /\ net.submits <= 1
  /\ net.fetches <= Len(email_ids)

\* C3 as stated: when a call ends it has opened exactly one session, retried
\* nothing, and the session is closed.
C3_ExactlyOneSession ==
  (pc = "done") => (net.opens = 1 /\ NoRetry /\ server.state # "open")

\* C3 as amended: when a call ends it has tried to open a session at most
\* once, exactly once unless send_email failed reading the attachment before
\* the session is opened, it retried nothing, and no session is left open; a
\* session is open only while a call is running.
C3_AtMostOneSessionClosed ==
  /\ (pc = "done") =>
       /\ net.opens <= 1
       /\ (net.opens = 0) =>
            (op = "send" /\ attachment = "missing" /\ result.exc = "FileNotFoundError")
       /\ NoRetry
       /\ server.state # "open"
  /\ (server.state = "open") => (pc \notin {"idle", "done"} /\ net.opens = 1)

\* C3's case: a search failed after a fetch and its session is closed.
C3_Witness ==
  /\ pc = "done"
  /\ op \in SearchOps
  /\ result.status = "raised"
  /\ net.fetches >= 1
  /\ server.state = "closed"

\* C4: send_email with no recipient never hands a message to the session and
\* never returns the success text.
C4_EmptyRecipientsRejected ==
  (op = "send" /\ recipient_emails = <<>>) =>
    (~sent.called /\ result.value # SuccessText)

\* What the searched field of a raw message has to contain.
Matches(o, q, raw) ==
  CASE o = "subject" -> Contains(q, Field(raw, "Subject"))
    [] o = "recipient" -> Contains(q, Field(raw, "To"))
    [] o = "sender" -> Contains(q, Field(raw, "From"))
    [] o = "body" -> Contains(q, raw.body)
    [] o = "date" -> /\ HasHeader([hdrs |-> raw.hdrs], "Date")
                     /\ Contains(q, Field(raw, "Date"))

ExpectedList(o, q, box) ==
  LET hit(raw) == Matches(o, q, raw)
      hits == SelectSeq(box, hit)
  IN  [k \in 1..Len(hits) |-> message_from_bytes(hits[k])]

\* C5: a search that ends without a network failure returns exactly the
\* messages of the mailbox, in order, whose field contains the query; the
\* filter itself never fails.
C5_SearchExact ==
  (op \in SearchOps /\ pc = "done") =>
    /\ result.exc # "TypeError"
    /\ (result.status = "returned") => (result.list = ExpectedList(op, query, mailbox))

\* C6: a search that ends gives its caller either a failure and no list, or
\* a list built after every identifier of the server's answer was fetched and
\* processed; it never returns while identifiers are left.
C6_AllOrNothing ==
  (op \in SearchOps /\ pc = "done") =>
    \/ /\ result.status = "raised"
       /\ result.list = <<>>
    \/ /\ result.status = "returned"
       /\ net.searches = 1
       /\ email_ids = ServerSearch(op, query, mailbox)
       /\ net.fetches = Len(email_ids)
       /\ result.list = emails
       /\ (op \in {"subject", "recipient", "sender"}) => (Len(result.list) = Len(email_ids))

\* C6's case: a search failed with messages already collected.
C6_Witness ==
  /\ op \in SearchOps
  /\ pc = "done"
  /\ result.status = "raised"
  /\ emails # <<>>
  /\ net.fetches = 2

RECURSIVE Offset(_, _)
\* Where the i-th recipient starts in the joined header.
Offset(list, i) ==
  IF i = 1 THEN 0 ELSE Offset(list, i - 1) + Len(list[i - 1]) + 2

\* s is the recipients in order, a comma and a space between neighbours.
IsCommaSpaceJoin(s, list) ==
  /\ Len(s) = Offset(list, Len(list)) + Len(list[Len(list)])
  /\ \A i \in 1..Len(list) :
       SubSeq(s, Offset(list, i) + 1, Offset(list, i) + Len(list[i])) = list[i]
  /\ \A i \in 1..(Len(list) - 1) :
       SubSeq(s, Offset(list, i) + Len(list[i]) + 1, Offset(list, i) + Len(list[i]) + 2)
         = <<",", " ">>

\* C7: for a non-empty recipient list the To header of the message, as built
\* and as submitted, is the comma-space join of the list in order, and the
\* envelope recipients handed to sendmail are the list itself.
C7_Addressing ==
  (op = "send" /\ recipient_emails # <<>>) =>
    /\ IsCommaSpaceJoin(Get(message, "To").value, recipient_emails)
    /\ sent.called =>
         /\ sent.to_addrs = recipient_emails
         /\ IsCommaSpaceJoin(Get([hdrs |-> sent.msg.hdrs], "To").value, recipient_emails)

\* C7's case: a message for two recipients was submitted and sent.
C7_Witness ==
  /\ op = "send"
  /\ Len(recipient_emails) = 2
  /\ recipient_emails[1] # recipient_emails[2]
  /\ sent.called
  /\ result.value = SuccessText

\* ------------------------------------------------------------- claims: SpecMsg
RECURSIVE AllPaths(_)
\* The paths of all parts of a tree.
AllPaths(t) ==
  {<<>>} \cup UNION { { <<k>> \o q : q \in AllPaths(t.parts[k]) } : k \in 1..Len(t.parts) }

\* Every container has a sub-part.
WellFormed(t) ==
  \A p \in AllPaths(t) : At(t, p).multipart => At(t, p).parts # <<>>

Ones(d) == [k \in 1..d |-> 1]

\* b is what the leaf's payload decodes to.
IsDecodingOf(b, leaf) ==
  IF \E k \in 1..Len(leaf.hdrs) :
       /\ Lower(leaf.hdrs[k].name) = "content-transfer-encoding"
       /\ leaf.hdrs[k].value = <<"base64">>
  THEN B64Encode(b) = leaf.text
  ELSE b = leaf.text

\* C8: on a well-formed tree get_email_body does not fail and returns the
\* decoded content of the leaf at the end of the path 1, 1, ..., 1.
C8_FirstBranchBody ==
  (helper = "get_email_body" /\ WellFormed(email)) =>
    /\ out.raised = ""
    /\ \E d \in 0..MaxNodes :
         /\ ValidPath(email, Ones(d))
         /\ ~At(email, Ones(d)).multipart
         /\ IsDecodingOf(out.body, At(email, Ones(d)))

\* C8's case: the first sub-part is itself a container and the second
\* sub-part a leaf with another content.
C8_Witness ==
  /\ helper = "get_email_body"
  /\ WellFormed(email)
  /\ Len(email.parts) = 2
  /\ email.parts[1].multipart
  /\ ~email.parts[2].multipart
  /\ out.body # DecodedPayload(email.parts[2])
  /\ out.body # <<>>

\* p comes before q in the walk of the tree: p is a proper prefix of q, or p
\* turns to an earlier sub-part where the two part.
PreorderBefore(p, q) ==
  \/ Len(p) < Len(q) /\ SubSeq(q, 1, Len(p)) = p
  \/ \E i \in 1..Len(p) :
       /\ i <= Len(q)
       /\ SubSeq(p, 1, i - 1) = SubSeq(q, 1, i - 1)
       /\ p[i] < q[i]

Qualifies(part) ==
  /\ get_content_maintype(part) # "multipart"
  /\ \E k \in 1..Len(part.hdrs) : Lower(part.hdrs[k].name) = "content-disposition"
  /\ get_filename(part).val # <<>>

\* What get_attachments has returned is the wanted parts, in walk order.
C9_Returned ==
  (helper = "get_attachments") =>
    LET wanted == {p \in AllPaths(email) : Qualifies(At(email, p))}
    IN  /\ {out.paths[k] : k \in 1..Len(out.paths)} = wanted
        /\ Len(out.paths) = Cardinality(wanted)
        /\ \A i, j \in 1..Len(out.paths) :
             (i < j) => PreorderBefore(out.paths[i], out.paths[j])
        /\ Len(out.parts) = Len(out.paths)
        /\ \A k \in 1..Len(out.paths) : out.parts[k] = At(email, out.paths[k])

\* C9: get_attachments returns, in the order of the walk, exactly the parts
\* whose declared major type is not multipart, that carry a
\* Content-Disposition header and have a non-empty filename, and the call
\* leaves the message as it was.
C9_Attachments ==
  /\ []C9_Returned
  /\ [][(helper' = "get_attachments") => (email' = email)]_vars

\* C9's case: a container with an inline text part and a named attachment
\* gives the attachment alone.
C9_Witness ==
  /\ helper = "get_attachments"
  /\ email.multipart
  /\ get_content_maintype(email) = "multipart"
  /\ Len(email.parts) = 2
  /\ ~HasHeader(email.parts[1], "Content-Disposition")
  /\ out.paths = << <<2>> >>
  /\ out.parts = << email.parts[2] >>

\* C10: every header occurrence of the message is in the mapping
\* get_email_headers returns, also when a name occurs more than once.
C10_AllOccurrences ==
  (helper = "get_email_headers") =>
    \A k \in 1..Len(email.hdrs) :
      /\ email.hdrs[k].name \in DOMAIN out.dict
      /\ out.dict[email.hdrs[k].name] = email.hdrs[k].value

====
